---- MODULE Spec2Model ----
(***************************************************************************)
(* BitGuard wallet (src/src/App.tsx): the App component's wallet state     *)
(* machine (create / unlock / lock / wipe over one localStorage slot) and  *)
(* WalletService (key derivation, password-based envelope encryption).     *)
(*                                                                         *)
(* JavaScript strings are sequences of UTF-16 code units, byte arrays are  *)
(* sequences of 0..255.  The platform primitives the code calls (PBKDF2,   *)
(* AES-GCM, BIP39/BIP32 hashing) are modelled by a keyed polynomial hash   *)
(* over a prime field: deterministic, sensitive to every input byte, and   *)
(* collision-free on the values the model draws.                           *)
(***************************************************************************)
EXTENDS Integers, Sequences, FiniteSets, TLC

VARIABLES
    appState,         \* App.tsx:33  'onboarding' | 'create' | 'import' | 'locked' | 'dashboard'
    password,         \* App.tsx:34  master-password input
    confirmPassword,  \* App.tsx:35  confirmation input
    mnemonic,         \* App.tsx:36  mnemonic state
    wallet,           \* App.tsx:37  WalletData | null
    error,            \* App.tsx:39  user-facing error message
    storage,          \* localStorage item 'bitguard_wallet' (base64 text) or Absent
    tasks,            \* suspended invocations of the async handlers
    origin,           \* history: password and WalletData of the create that wrote storage
    call              \* the WalletService call under study (pure-function harness)

vars == <<appState, password, confirmPassword, mnemonic, wallet, error, storage, tasks,
          origin, call>>

appVars == <<appState, password, confirmPassword, mnemonic, wallet, error, storage, tasks,
             origin>>

(***************************************************************************)
(* Bounds of the model.                                                    *)
(***************************************************************************)
MaxTasks == 2      \* handler invocations suspended at an await at one time
MaxEntropy == 2    \* distinct outcomes of generateMnemonic's entropy draw
MaxRandom == 1     \* distinct outcomes of each getRandomValues draw

(***************************************************************************)
(* Sequences and bytes.                                                    *)
(***************************************************************************)
Null == <<>>        \* null / absent item; a present value v is <<v>>

Some(v) == <<v>>

IsNull(o) == Len(o) = 0

TheValue(o) == o[1]
Resolved(v) == [ok |-> TRUE, value |-> v]   \* a promise fulfilled with v

Rejected == [ok |-> FALSE, value |-> <<>>]  \* a rejected promise (the await throws)

Fill(n, x) == [i \in 1..n |-> x]

Slice(s, from, to) ==
    \* Buffer.slice / Uint8Array.slice(from, to): 0-based, end exclusive, clamped
    LET lo == IF from > Len(s) THEN Len(s) ELSE from
        hi == IF to > Len(s) THEN Len(s) ELSE to
    IN  IF hi <= lo THEN <<>> ELSE [i \in 1..(hi - lo) |-> s[lo + i]]

RECURSIVE Pow2(_)
Pow2(k) == IF k = 0 THEN 1 ELSE 2 * Pow2(k - 1)

FlipBit(b, k) ==
    IF (b \div Pow2(k)) % 2 = 1 THEN b - Pow2(k) ELSE b + Pow2(k)

RECURSIVE Flatten(_, _, _)
Flatten(pieces, lo, hi) ==
    \* pieces[lo] \o ... \o pieces[hi], halving the range
    IF lo > hi THEN <<>>
    ELSE IF lo = hi THEN pieces[lo]
    ELSE LET mid == (lo + hi) \div 2
         IN  Flatten(pieces, lo, mid) \o Flatten(pieces, mid + 1, hi)

SplitOn(s, sep) ==
    \* String.split(sep): the pieces of s between the occurrences of sep
    LET at == {i \in 1..Len(s) : s[i] = sep}
        n == Cardinality(at)
        cut(k) == IF k = 0 THEN 0
                  ELSE IF k > n THEN Len(s) + 1
                  ELSE CHOOSE i \in at : Cardinality({q \in at : q < i}) = k - 1
    IN  [k \in 1..(n + 1) |-> SubSeq(s, cut(k - 1) + 1, cut(k) - 1)]

(***************************************************************************)
(* TextEncoder / TextDecoder (UTF-8).  encode() turns the string into a    *)
(* scalar-value string first: a surrogate pair is one code point, a lone   *)
(* surrogate becomes U+FFFD.  new TextDecoder() is the non-fatal decoder   *)
(* with ignoreBOM = false: a leading EF BB BF is dropped, malformed input  *)
(* decodes to U+FFFD.                                                      *)
(***************************************************************************)
IsHighSurrogate(c) == c >= 55296 /\ c <= 56319

IsLowSurrogate(c) == c >= 56320 /\ c <= 57343

Utf8OfCodePoint(cp) ==
    IF cp < 128 THEN <<cp>>
    ELSE IF cp < 2048 THEN <<192 + (cp \div 64), 128 + (cp % 64)>>
    ELSE IF cp < 65536
        THEN <<224 + (cp \div 4096), 128 + ((cp \div 64) % 64), 128 + (cp % 64)>>
    ELSE <<240 + (cp \div 262144), 128 + ((cp \div 4096) % 64),
           128 + ((cp \div 64) % 64), 128 + (cp % 64)>>

TextEncode(s) ==
    \* TextEncoder.encode(s)
    LET unit(i) ==
            LET c == s[i] IN
            IF IsHighSurrogate(c) /\ i < Len(s) /\ IsLowSurrogate(s[i + 1])
                THEN Utf8OfCodePoint(65536 + (c - 55296) * 1024 + (s[i + 1] - 56320))
            ELSE IF IsLowSurrogate(c) /\ i > 1 /\ IsHighSurrogate(s[i - 1])
                THEN <<>>
            ELSE IF IsHighSurrogate(c) \/ IsLowSurrogate(c)
                THEN <<239, 191, 189>>
            ELSE Utf8OfCodePoint(c)
    IN  Flatten([i \in 1..Len(s) |-> unit(i)], 1, Len(s))

IsCont(b, i) == i <= Len(b) /\ b[i] >= 128 /\ b[i] <= 191

CodeUnitsOf(cp) ==
    IF cp < 65536 THEN <<cp>>
    ELSE <<55296 + ((cp - 65536) \div 1024), 56320 + ((cp - 65536) % 1024)>>

SequenceLength(b, i) ==
    \* the length of the well-formed UTF-8 sequence that starts at byte i, or 0
    LET x == b[i] IN
    IF x < 128 THEN 1
    ELSE IF x >= 194 /\ x <= 223 /\ IsCont(b, i + 1) THEN 2
    ELSE IF x >= 224 /\ x <= 239 /\ IsCont(b, i + 1) /\ IsCont(b, i + 2)
            /\ (x = 224 => b[i + 1] >= 160) /\ (x = 237 => b[i + 1] <= 159) THEN 3
    ELSE IF x >= 240 /\ x <= 244 /\ IsCont(b, i + 1) /\ IsCont(b, i + 2)
            /\ IsCont(b, i + 3)
            /\ (x = 240 => b[i + 1] >= 144) /\ (x = 244 => b[i + 1] <= 143) THEN 4
    ELSE 0

Utf8Decode(b, from) ==
    \* a well-formed sequence decodes to its code point, its continuation bytes
    \* to nothing; every other byte decodes to U+FFFD
    LET n == Len(b)
        unit(i) ==
            LET k == SequenceLength(b, i) IN
            IF k = 1 THEN <<b[i]>>
            ELSE IF k = 2 THEN <<(b[i] - 192) * 64 + (b[i + 1] - 128)>>
            ELSE IF k = 3
                THEN <<(b[i] - 224) * 4096 + (b[i + 1] - 128) * 64 + (b[i + 2] - 128)>>
            ELSE IF k = 4
                THEN CodeUnitsOf((b[i] - 240) * 262144 + (b[i + 1] - 128) * 4096
                                     + (b[i + 2] - 128) * 64 + (b[i + 3] - 128))
            ELSE IF \E d \in 1..3 : i - d >= from /\ SequenceLength(b, i - d) > d
                THEN <<>>
            ELSE <<65533>>
    IN  Flatten([i \in 1..n |-> IF i < from THEN <<>> ELSE unit(i)], 1, n)

TextDecode(b) ==
    \* new TextDecoder().decode(b)
    IF Len(b) >= 3 /\ b[1] = 239 /\ b[2] = 187 /\ b[3] = 191
        THEN Utf8Decode(b, 4)
        ELSE Utf8Decode(b, 1)

(***************************************************************************)
(* Buffer base64.  A base64 text is a sequence of alphabet indices 0..63,  *)
(* with 64 standing for the padding character '='.                         *)
(***************************************************************************)
Base64Pad == 64

Base64Encode(b) ==
    \* Buffer.from(bytes).toString('base64'): four characters per three bytes, the
    \* last group padded with '='
    LET n == Len(b)
        at(i) == IF i <= n THEN b[i] ELSE 0
        char(j) ==
            LET g == 3 * ((j - 1) \div 4)
                k == (j - 1) % 4
            IN  IF k = 0 THEN at(g + 1) \div 4
                ELSE IF k = 1 THEN ((at(g + 1) % 4) * 16) + (at(g + 2) \div 16)
                ELSE IF k = 2
                    THEN IF g + 2 > n THEN Base64Pad
                         ELSE ((at(g + 2) % 16) * 4) + (at(g + 3) \div 64)
                ELSE IF g + 3 > n THEN Base64Pad ELSE at(g + 3) % 64
    IN  [j \in 1..(4 * ((n + 2) \div 3)) |-> char(j)]

Base64Clean(t) ==
    \* the text up to the first '=' (Buffer takes '=' as the end of the encoding)
    LET pads == {i \in 1..Len(t) : t[i] = Base64Pad}
    IN  IF pads = {} THEN t
        ELSE SubSeq(t, 1, (CHOOSE i \in pads : \A q \in pads : i <= q) - 1)

Base64Bytes(t) ==
    \* full groups of four give three bytes; a tail of 2 gives one byte, of 3 two
    \* bytes, a tail of a single character gives nothing
    LET n == Len(t)
        tail == n % 4
        count == 3 * (n \div 4) + (IF tail = 2 THEN 1 ELSE IF tail = 3 THEN 2 ELSE 0)
        byte(i) ==
            LET g == 4 * ((i - 1) \div 3)
                k == (i - 1) % 3
            IN  IF k = 0 THEN (t[g + 1] * 4) + (t[g + 2] \div 16)
                ELSE IF k = 1 THEN ((t[g + 2] % 16) * 16) + (t[g + 3] \div 4)
                ELSE ((t[g + 3] % 4) * 64) + t[g + 4]
    IN  [i \in 1..count |-> byte(i)]

Base64Decode(t) == Base64Bytes(Base64Clean(t))

(***************************************************************************)
(* window.crypto.subtle.  HashBytes is the keyed polynomial hash standing  *)
(* for the platform's hash functions; changing one byte of the input or    *)
(* the seed always changes the result.                                     *)
(***************************************************************************)
RECURSIVE HashRange(_, _, _, _)
HashRange(b, lo, hi, seed) ==
    \* the hash folded over b[lo..hi], halving the range
    IF lo > hi THEN seed
    ELSE IF lo = hi THEN (seed * 263 + b[lo] + 1) % 65521
    ELSE LET mid == (lo + hi) \div 2
             left == HashRange(b, lo, mid, seed)
         IN  IF left >= 0 THEN HashRange(b, mid + 1, hi, left) ELSE 0

HashBytes(b, seed) == HashRange(b, 1, Len(b), seed)

deriveKey(passwordBytes, salt) ==
    \* importKey('raw', password, 'PBKDF2') then deriveKey(PBKDF2, salt, 100000, SHA-256)
    HashBytes(salt, HashBytes(passwordBytes, 0))

KeyStream(key, iv, i) == (HashBytes(iv, key) + 97 * i) % 256

GcmTag(key, iv, ct) ==
    \* the 128-bit authentication tag over the ciphertext, bound to key and iv
    LET t == HashBytes(ct, HashBytes(iv, (key + 1) % 65521))
    IN  [j \in 1..16 |-> IF j = 1 THEN t % 256
                         ELSE IF j = 2 THEN t \div 256
                         ELSE (t * j + 7) % 256]

AesGcmEncrypt(key, iv, pt) ==
    \* subtle.encrypt({name: 'AES-GCM', iv}, key, data): ciphertext followed by the tag
    LET ct == [i \in 1..Len(pt) |-> (pt[i] + KeyStream(key, iv, i)) % 256]
    IN  ct \o GcmTag(key, iv, ct)

AesGcmDecryptUnverified(key, iv, data) ==
    \* a decrypt that does not verify the authentication tag
    IF Len(data) < 16 THEN Rejected
    ELSE LET ct == SubSeq(data, 1, Len(data) - 16)
         IN  Resolved([i \in 1..Len(ct) |-> (ct[i] + 256 - KeyStream(key, iv, i)) % 256])

AesGcmDecrypt(key, iv, data) ==
    \* subtle.decrypt: rejects (OperationError) when data is shorter than the tag or
    \* the tag does not verify; otherwise resolves with the plaintext
    IF Len(data) < 16 THEN Rejected
    ELSE LET ct == SubSeq(data, 1, Len(data) - 16)
             tag == SubSeq(data, Len(data) - 15, Len(data))
         IN  IF tag # GcmTag(key, iv, ct) THEN Rejected
             ELSE Resolved([i \in 1..Len(ct) |->
                               (ct[i] + 256 - KeyStream(key, iv, i)) % 256])

(***************************************************************************)
(* WalletService.encryptData / decryptData.                                *)
(***************************************************************************)
encryptDataFixedDraws(data, pw, salt, iv) ==
    \* an encryptData that draws nothing: salt and iv are left as allocated (zeros)
    LET key == deriveKey(TextEncode(pw), Fill(16, 0))
        encrypted == AesGcmEncrypt(key, Fill(12, 0), TextEncode(data))
        combined == Fill(16, 0) \o Fill(12, 0) \o encrypted
    IN  Base64Encode(combined)

encryptData(data, pw, salt, iv) ==
    \* salt and iv are the two getRandomValues draws (16 and 12 bytes)
    LET key == deriveKey(TextEncode(pw), salt)
        encrypted == AesGcmEncrypt(key, iv, TextEncode(data))
        combined == salt \o iv \o encrypted
    IN  Base64Encode(combined)

decryptDataShortIv(encryptedBase64, pw) ==
    \* a decryptData that takes the iv one byte short: slice(16, 27)
    LET combined == Base64Decode(encryptedBase64)
        salt == Slice(combined, 0, 16)
        iv == Slice(combined, 16, 27)
        data == Slice(combined, 27, Len(combined))
        key == deriveKey(TextEncode(pw), salt)
        decrypted == AesGcmDecrypt(key, iv, data)
    IN  IF ~decrypted.ok THEN Rejected ELSE Resolved(TextDecode(decrypted.value))

decryptData(encryptedBase64, pw) ==
    LET combined == Base64Decode(encryptedBase64)
        salt == Slice(combined, 0, 16)
        iv == Slice(combined, 16, 28)
        data == Slice(combined, 28, Len(combined))
        key == deriveKey(TextEncode(pw), salt)
        decrypted == AesGcmDecrypt(key, iv, data)
    IN  IF ~decrypted.ok THEN Rejected ELSE Resolved(TextDecode(decrypted.value))

(***************************************************************************)
(* WalletService key derivation.  A mnemonic is a string of words joined   *)
(* by single spaces; the model's wordlist is the eight one-letter words    *)
(* 'a'..'h', a phrase's last word carries the checksum of the others.      *)
(***************************************************************************)
Space == 32

WordOf(k) == 97 + (k % 8)

RECURSIVE SumWords(_, _)
SumWords(w, n) == IF n = 0 THEN 0 ELSE (w[n] - 97) + SumWords(w, n - 1)

RECURSIVE JoinWords(_, _)
JoinWords(w, n) ==
    IF n = 0 THEN <<>>
    ELSE IF n = 1 THEN <<w[1]>>
    ELSE JoinWords(w, n - 1) \o <<Space, w[n]>>

generateMnemonic(entropy) ==
    \* bip39.generateMnemonic(): 12 words from the entropy drawn, the last one
    \* completed by the checksum
    LET body == [i \in 1..11 |-> WordOf(entropy * i)]
        words == body \o <<WordOf(SumWords(body, 11))>>
    IN  JoinWords(words, 12)

validateMnemonic(m) ==
    \* bip39.validateMnemonic: word count, known words, checksum; never throws
    LET pieces == SplitOn(m, Space)
        n == Len(pieces)
    IN  /\ n \in {12, 15, 18, 21, 24}
        /\ \A i \in 1..n : Len(pieces[i]) = 1 /\ pieces[i][1] \in 97..104
        /\ LET w == [i \in 1..n |-> pieces[i][1]]
           IN  w[n] = WordOf(SumWords(w, n - 1))

mnemonicToSeed(m) ==
    \* bip39.mnemonicToSeed: PBKDF2 over the phrase, no validation of the phrase
    HashBytes(TextEncode(m), 2048)

NetBitcoin == <<98, 105, 116, 99, 111, 105, 110>>   \* 'bitcoin'

NetTestnet == <<116, 101, 115, 116, 110, 101, 116>> \* 'testnet'

DerivationPathPlainAccount(network) ==
    \* a path whose account level is not hardened: m/84'/coin'/0/0/0
    << [index |-> 84, hardened |-> TRUE],
       [index |-> IF network = NetBitcoin THEN 0 ELSE 1, hardened |-> TRUE],
       [index |-> 0, hardened |-> FALSE],
       [index |-> 0, hardened |-> FALSE],
       [index |-> 0, hardened |-> FALSE] >>

DerivationPath(network) ==
    \* `m/84'/${network === 'bitcoin' ? '0' : '1'}'/0'/0/0`
    << [index |-> 84, hardened |-> TRUE],
       [index |-> IF network = NetBitcoin THEN 0 ELSE 1, hardened |-> TRUE],
       [index |-> 0, hardened |-> TRUE],
       [index |-> 0, hardened |-> FALSE],
       [index |-> 0, hardened |-> FALSE] >>

RECURSIVE derivePath(_, _, _)
derivePath(node, path, i) ==
    \* root.derivePath(path): one child derivation per path element
    IF i > Len(path) THEN node
    ELSE derivePath((node * 263 + path[i].index
                        + (IF path[i].hardened THEN 32768 ELSE 0) + 1) % 65521,
                    path, i + 1)

HexDigit(d) == IF d < 10 THEN 48 + d ELSE 87 + d

ToHex(b) ==
    \* Buffer.toString('hex')
    [i \in 1..(2 * Len(b)) |->
        IF i % 2 = 1 THEN HexDigit(b[(i + 1) \div 2] \div 16)
                     ELSE HexDigit(b[i \div 2] % 16)]

P2wpkhAddress(publicKey, network) ==
    \* bitcoin.payments.p2wpkh: bech32 prefix of the network, then the key hash
    LET h == HashBytes(publicKey, 160)
        char(d) == IF d < 26 THEN 97 + d ELSE 22 + d
        hrp == IF network = NetBitcoin THEN <<98, 99, 49, 113>> ELSE <<116, 98, 49, 113>>
    IN  hrp \o <<char(h % 32), char((h \div 32) % 32), char((h \div 1024) % 32)>>

createWallet(m, network) ==
    \* WalletService.createWallet: the WalletData it resolves with
    LET seed == mnemonicToSeed(m)
        root == (seed * 263 + (IF network = NetBitcoin THEN 1 ELSE 2)) % 65521
        child == derivePath(root, DerivationPath(network), 1)
        publicKey == <<2 + (child % 2), child \div 256, child % 256>>
    IN  Resolved([mnemonic |-> m,
                  address |-> P2wpkhAddress(publicKey, network),
                  publicKey |-> ToHex(publicKey),
                  network |-> network])

(***************************************************************************)
(* JSON.stringify / JSON.parse on WalletData.  The values hold no quote or *)
(* backslash, so stringify escapes nothing.                                *)
(***************************************************************************)
Quote == 34

JsonKeys ==
    << <<109, 110, 101, 109, 111, 110, 105, 99>>,        \* mnemonic
       <<97, 100, 100, 114, 101, 115, 115>>,             \* address
       <<112, 117, 98, 108, 105, 99, 75, 101, 121>>,     \* publicKey
       <<110, 101, 116, 119, 111, 114, 107>> >>          \* network

JsonMember(key, value) == <<Quote>> \o key \o <<Quote, 58, Quote>> \o value \o <<Quote>>

JsonStringify(w) ==
    <<123>> \o JsonMember(JsonKeys[1], w.mnemonic)
        \o <<44>> \o JsonMember(JsonKeys[2], w.address)
        \o <<44>> \o JsonMember(JsonKeys[3], w.publicKey)
        \o <<44>> \o JsonMember(JsonKeys[4], w.network)
        \o <<125>>

JsonParse(text) ==
    \* the object stringify wrote, or a SyntaxError for text that is no JSON
    LET parts == SplitOn(text, Quote)
    IN  IF /\ Len(parts) = 17
           /\ parts[1] = <<123>> /\ parts[17] = <<125>>
           /\ \A k \in 1..4 : parts[4 * k - 2] = JsonKeys[k] /\ parts[4 * k - 1] = <<58>>
           /\ \A k \in 1..3 : parts[4 * k + 1] = <<44>>
        THEN Resolved([mnemonic |-> parts[4], address |-> parts[8],
                       publicKey |-> parts[12], network |-> parts[16]])
        ELSE Rejected

(***************************************************************************)
(* Inputs.  Passwords the user may type, as UTF-16 strings.                *)
(***************************************************************************)
PwA == Fill(8, 97)                          \* 'aaaaaaaa'

PwB == Fill(7, 97) \o <<98>>                \* 'aaaaaaab'

PwRep == Fill(7, 97) \o <<65533>>           \* 'aaaaaaa' + U+FFFD

PwHi == Fill(7, 97) \o <<55296>>            \* 'aaaaaaa' + lone high surrogate U+D800

PwShort == <<119, 114, 111, 110, 103>>      \* 'wrong'

Passwords == {PwRep, PwHi, PwShort}

RandomBytes(n) == {Fill(n, r) : r \in 1..MaxRandom}   \* getRandomValues(new Uint8Array(n))

Mnemonics == {generateMnemonic(e) : e \in 1..MaxEntropy}

ErrMismatch == "As senhas nao coincidem"

ErrTooShort == "A senha deve ter pelo menos 8 caracteres"

ErrCreate == "Erro ao criar carteira"

ErrUnlock == "Senha incorreta"

(***************************************************************************)
(* The values the handlers compute, tabulated once over the model's        *)
(* inputs: the table entry for an argument list is the call's result.      *)
(***************************************************************************)
Wallets == {createWallet(m, NetBitcoin).value : m \in Mnemonics}

SealedBy ==
    \* encryptData(JSON.stringify(w), pw) for each outcome of its two random draws
    [w \in Wallets, pw \in Passwords, salt \in RandomBytes(16), iv \in RandomBytes(12) |->
        encryptData(JsonStringify(w), pw, salt, iv)] @@ <<>>

SealedTexts ==
    {SealedBy[w, pw, salt, iv] :
        w \in Wallets, pw \in Passwords, salt \in RandomBytes(16), iv \in RandomBytes(12)}

Unsealed(texts) ==
    \* decryptData(text, pw) followed by JSON.parse, a rejection of either kept
    [text \in texts, pw \in Passwords \cup {<<>>} |->
        LET decrypted == decryptData(text, pw)
        IN  IF decrypted.ok THEN JsonParse(decrypted.value) ELSE Rejected] @@ <<>>

FlipPositions(text) == {1, 17, 29, Len(Base64Decode(text))}   \* in salt, iv, data, tag

FlipBits == {0, 7}

CutLengths == {0, 1, 40, 100}       \* characters of the item that are left

FlippedText(text, i, k) ==
    LET combined == Base64Decode(text)
    IN  Base64Encode([combined EXCEPT ![i] = FlipBit(combined[i], k)])

ForeignTexts ==
    \* envelopes sealed under a model password whose plaintext is not JSON ('x')
    {encryptData(<<120>>, pw, salt, iv) :
        pw \in Passwords, salt \in RandomBytes(16), iv \in RandomBytes(12)}

AlteredTexts ==
    UNION {{FlippedText(text, i, k) : i \in FlipPositions(text), k \in FlipBits}
               \cup {SubSeq(text, 1, n) : n \in CutLengths} : text \in SealedTexts}

UnsealedBy == Unsealed(SealedTexts \cup AlteredTexts \cup ForeignTexts)

(***************************************************************************)
(* The App component.  A handler runs to its first await in one step; the  *)
(* rest of it runs, one step per await that settles, as a task.            *)
(***************************************************************************)
CreateTask(pw, m) ==
    [kind |-> "create", at |-> "createWallet", pw |-> pw, m |-> m,
     w |-> Null, saved |-> <<>>, origin |-> Null]

UnlockTask(pw, saved, from) ==
    \* `from` is the history of the item read, kept for the properties only
    [kind |-> "unlock", at |-> "decryptData", pw |-> pw, m |-> <<>>,
     w |-> Null, saved |-> saved, origin |-> from]

NoCall ==
    [op |-> "none", data |-> <<>>, pw |-> <<>>, text |-> <<>>, how |-> "none",
     at |-> 0, openPw |-> <<>>, out |-> Rejected, shown |-> "", draws |-> <<>>]

MountedAppStateUnchecked(item) ==
    \* a mount that does not look at the stored item
    "onboarding"

MountedAppState(item) ==
    \* the mount effect: getItem('bitguard_wallet') truthy -> 'locked'
    IF ~IsNull(item) /\ TheValue(item) # <<>> THEN "locked" ELSE "onboarding"

Init ==
    \* first load on an empty storage: useState initial values, mount effect done
    /\ storage = Null
    /\ appState = MountedAppState(Null)
    /\ password = <<>>
    /\ confirmPassword = <<>>
    /\ mnemonic = <<>>
    /\ wallet = Null
    /\ error = ""
    /\ tasks = {}
    /\ origin = Null
    /\ call = NoCall

setPassword(p) ==
    \* onChange of the password inputs of the onboarding and locked screens
    /\ appState \in {"onboarding", "locked"}
    /\ password' = p
    /\ UNCHANGED <<appState, confirmPassword, mnemonic, wallet, error, storage, tasks, origin, call>>

setConfirmPassword(p) ==
    /\ appState = "onboarding"
    /\ confirmPassword' = p
    /\ UNCHANGED <<appState, password, mnemonic, wallet, error, storage, tasks, origin, call>>

handleCreateWalletUnguarded ==
    \* a handleCreateWallet without the two password checks
    /\ appState = "onboarding"
    /\ Cardinality(tasks) < MaxTasks
    /\ \E newMnemonic \in Mnemonics :
           /\ mnemonic' = newMnemonic
           /\ tasks' = tasks \cup {[kind |-> "create", at |-> "createWallet", pw |-> password,
                                    m |-> newMnemonic, w |-> Null, saved |-> <<>>,
                                    origin |-> Null]}
    /\ UNCHANGED <<appState, password, confirmPassword, wallet, error, storage, origin, call>>

handleCreateWallet ==
    \* the click on 'Criar Nova Carteira', up to the await of createWallet
    /\ appState = "onboarding"
    /\ IF password # confirmPassword
           THEN /\ error' = ErrMismatch
                /\ UNCHANGED <<mnemonic, tasks>>
       ELSE IF Len(password) < 8
           THEN /\ error' = ErrTooShort
                /\ UNCHANGED <<mnemonic, tasks>>
       ELSE /\ Cardinality(tasks) < MaxTasks
            /\ \E newMnemonic \in Mnemonics :
                   /\ mnemonic' = newMnemonic
                   /\ tasks' = tasks \cup {CreateTask(password, newMnemonic)}
            /\ UNCHANGED error
    /\ UNCHANGED <<appState, password, confirmPassword, wallet, storage, origin, call>>

createWalletResolved(t) ==
    \* handleCreateWallet from `await createWallet` to the await inside encryptData
    /\ t \in tasks /\ t.kind = "create" /\ t.at = "createWallet"
    /\ LET newWallet == createWallet(t.m, NetBitcoin)
       IN  IF newWallet.ok
               THEN /\ wallet' = Some(newWallet.value)
                    /\ tasks' = (tasks \ {t})
                                   \cup {[t EXCEPT !.at = "encryptData",
                                                   !.w = Some(newWallet.value)]}
                    /\ UNCHANGED error
               ELSE /\ error' = ErrCreate
                    /\ tasks' = tasks \ {t}
                    /\ UNCHANGED wallet
    /\ UNCHANGED <<appState, password, confirmPassword, mnemonic, storage, origin, call>>

encryptDataResolved(t) ==
    \* handleCreateWallet from `await encryptData` to its end
    /\ t \in tasks /\ t.kind = "create" /\ t.at = "encryptData"
    /\ \E salt \in RandomBytes(16), iv \in RandomBytes(12) :
           storage' = Some(SealedBy[TheValue(t.w), t.pw, salt, iv])
    /\ origin' = Some([pw |-> t.pw, wallet |-> TheValue(t.w)])
    /\ appState' = "create"
    /\ tasks' = tasks \ {t}
    /\ UNCHANGED <<password, confirmPassword, mnemonic, wallet, error, call>>

generateMnemonicThrew ==
    \* the click on 'Criar Nova Carteira' when generateMnemonic throws (no entropy
    \* source): the password checks pass, the catch sets the error
    /\ appState = "onboarding"
    /\ password = confirmPassword /\ Len(password) >= 8
    /\ error' = ErrCreate
    /\ UNCHANGED <<appState, password, confirmPassword, mnemonic, wallet, storage, tasks,
                   origin, call>>

createFailed(t) ==
    \* the catch of handleCreateWallet after an await: setError only
    /\ error' = ErrCreate
    /\ tasks' = tasks \ {t}
    /\ UNCHANGED <<appState, password, confirmPassword, mnemonic, wallet, storage, origin,
                   call>>

createWalletRejected(t) ==
    \* `await createWallet` rejects (derivation fails or no address)
    /\ t \in tasks /\ t.kind = "create" /\ t.at = "createWallet"
    /\ createFailed(t)

encryptDataRejected(t) ==
    \* `await encryptData` rejects (crypto.subtle is missing or refuses)
    /\ t \in tasks /\ t.kind = "create" /\ t.at = "encryptData"
    /\ createFailed(t)

setItemThrew(t) ==
    \* encryptData resolved and localStorage.setItem throws (quota, storage denied)
    /\ t \in tasks /\ t.kind = "create" /\ t.at = "encryptData"
    /\ createFailed(t)

handleUnlockEntry ==
    \* the click on 'Desbloquear' (or Enter), up to the await of decryptData
    /\ appState = "locked"
    /\ IF IsNull(storage) \/ TheValue(storage) = <<>>
           THEN UNCHANGED tasks
           ELSE /\ Cardinality(tasks) < MaxTasks
                /\ tasks' = tasks \cup {UnlockTask(password, TheValue(storage), origin)}
    /\ UNCHANGED <<appState, password, confirmPassword, mnemonic, wallet, error, storage,
                   origin>>

handleUnlock == handleUnlockEntry /\ UNCHANGED call

handleUnlockRest(t) ==
    \* handleUnlock from `await decryptData` to its end
    /\ t \in tasks /\ t.kind = "unlock"
    /\ LET walletData == UnsealedBy[t.saved, t.pw]
       IN  IF walletData.ok
               THEN /\ wallet' = Some(walletData.value)
                    /\ appState' = "dashboard"
                    /\ error' = ""
               ELSE /\ error' = ErrUnlock
                    /\ UNCHANGED <<wallet, appState>>
    /\ tasks' = tasks \ {t}
    /\ UNCHANGED <<password, confirmPassword, mnemonic, storage, origin>>

decryptDataSettled(t) == handleUnlockRest(t) /\ UNCHANGED call

handleLogout ==
    \* 'Sair' on the dashboard
    /\ appState = "dashboard" /\ ~IsNull(wallet)
    /\ wallet' = Null
    /\ password' = <<>>
    /\ appState' = "locked"
    /\ UNCHANGED <<confirmPassword, mnemonic, error, storage, tasks, origin, call>>

wipeKeepsItem(confirmed) ==
    \* a wipe that leaves the stored item in place
    /\ appState = "locked"
    /\ IF confirmed THEN appState' = "onboarding" ELSE UNCHANGED appState
    /\ UNCHANGED <<password, confirmPassword, mnemonic, wallet, error, storage, tasks,
                   origin, call>>

wipe(confirmed) ==
    \* 'Apagar carteira local' on the locked screen, after confirm()
    /\ appState = "locked"
    /\ IF confirmed
           THEN /\ storage' = Null
                /\ origin' = Null
                /\ appState' = "onboarding"
           ELSE UNCHANGED <<storage, origin, appState>>
    /\ UNCHANGED <<password, confirmPassword, mnemonic, wallet, error, tasks, call>>

showImport ==
    \* 'Ja tenho uma carteira' on the onboarding screen
    /\ appState = "onboarding"
    /\ appState' = "import"
    /\ UNCHANGED <<password, confirmPassword, mnemonic, wallet, error, storage, tasks, origin, call>>

showDashboard ==
    \* 'Eu salvei a frase' on the create screen
    /\ appState = "create" /\ ~IsNull(wallet)
    /\ appState' = "dashboard"
    /\ UNCHANGED <<password, confirmPassword, mnemonic, wallet, error, storage, tasks, origin, call>>

reload ==
    \* the page is loaded again: pending handlers are gone, the component mounts
    /\ appState' = MountedAppState(storage)
    /\ password' = <<>>
    /\ confirmPassword' = <<>>
    /\ mnemonic' = <<>>
    /\ wallet' = Null
    /\ error' = ""
    /\ tasks' = {}
    /\ UNCHANGED <<storage, origin, call>>

Next ==
    \/ \E p \in Passwords : setPassword(p)
    \/ \E p \in Passwords : setConfirmPassword(p)
    \/ handleCreateWallet
    \/ \E t \in tasks : createWalletResolved(t)
    \/ \E t \in tasks : encryptDataResolved(t)
    \/ handleUnlock
    \/ \E t \in tasks : decryptDataSettled(t)
    \/ handleLogout
    \/ \E confirmed \in BOOLEAN : wipe(confirmed)
    \/ showImport
    \/ showDashboard
    \/ reload
    \/ generateMnemonicThrew
    \/ \E t \in tasks : createWalletRejected(t)
    \/ \E t \in tasks : encryptDataRejected(t)
    \/ \E t \in tasks : setItemThrew(t)

Spec == Init /\ [][Next]_vars

(***************************************************************************)
(* The unlock path on a storage item that something outside the App has    *)
(* altered.  It starts where a wallet has been created and the page loaded *)
(* again; each alteration is applied to an item as encryptData wrote it.   *)
(***************************************************************************)
InitCorrupt ==
    /\ \E w \in Wallets, salt \in RandomBytes(16), iv \in RandomBytes(12) :
           /\ storage = Some(SealedBy[w, PwRep, salt, iv])
           /\ origin = Some([pw |-> PwRep, wallet |-> w])
    /\ appState = MountedAppState(storage)
    /\ password = <<>>
    /\ confirmPassword = <<>>
    /\ mnemonic = <<>>
    /\ wallet = Null
    /\ error = ""
    /\ tasks = {}
    /\ call = NoCall

Intact == ~IsNull(storage) /\ TheValue(storage) \in SealedTexts

itemFlipped(i, k) ==
    \* one bit of the stored envelope is flipped
    /\ Intact
    /\ storage' = Some(FlippedText(TheValue(storage), i, k))
    /\ UNCHANGED <<appState, password, confirmPassword, mnemonic, wallet, error, tasks,
                   origin, call>>

itemTruncated(n) ==
    \* only the first n characters of the stored text are left
    /\ Intact
    /\ storage' = Some(SubSeq(TheValue(storage), 1, n))
    /\ UNCHANGED <<appState, password, confirmPassword, mnemonic, wallet, error, tasks,
                   origin, call>>

itemReplaced(text) ==
    \* the item is replaced by a sealed text that does not hold a wallet
    /\ Intact
    /\ storage' = Some(text)
    /\ UNCHANGED <<appState, password, confirmPassword, mnemonic, wallet, error, tasks,
                   origin, call>>

Attempt(text, pw, how, unlocked) ==
    \* an unlock attempt as the user saw it end: `how` it ended, whether the
    \* wallet was unlocked, the message shown, and (at = 1) whether the app
    \* state, the wallet in memory or the item changed
    [op |-> "handleUnlock", data |-> <<>>, pw |-> pw, text |-> text, how |-> how,
     at |-> IF <<appState', wallet', storage'>> = <<appState, wallet, storage>>
                THEN 0 ELSE 1,
     openPw |-> pw, out |-> [ok |-> unlocked, value |-> <<>>], shown |-> error',
     draws |-> <<>>]

unlockAttempted ==
    \* handleUnlock's first step; an attempt that ends in it is recorded
    /\ handleUnlockEntry
    /\ IF ~IsNull(storage) /\ tasks' = tasks /\ TheValue(storage) = <<>>
           THEN call' = Attempt(TheValue(storage), password, "returned", FALSE)
           ELSE UNCHANGED call

unlockSettled(t) ==
    \* handleUnlock's last step, recorded
    /\ handleUnlockRest(t)
    /\ call' = Attempt(t.saved, t.pw, "settled", appState' = "dashboard")

NextCorrupt ==
    \/ \E p \in {PwRep, PwShort} : setPassword(p)
    \/ unlockAttempted
    \/ \E t \in tasks : unlockSettled(t)
    \/ handleLogout
    \/ reload
    \/ \E i \in (IF Intact THEN FlipPositions(TheValue(storage)) ELSE {}), k \in FlipBits :
           itemFlipped(i, k)
    \/ \E n \in CutLengths : itemTruncated(n)
    \/ \E text \in ForeignTexts : itemReplaced(text)

SpecCorrupt == InitCorrupt /\ [][NextCorrupt]_vars

(***************************************************************************)
(* WalletService on its own: one call of encryptData, an alteration of the *)
(* envelope it returned, one call of decryptData on the result; or one     *)
(* call of createWallet.  `call` records the arguments and the outcome.    *)
(***************************************************************************)
Plaintexts ==
    { <<>>,                          \* ''
      <<104, 105>>,                  \* 'hi'
      <<233, 8364>>,                 \* two- and three-byte characters
      <<55357, 56832>>,              \* a surrogate pair (U+1F600)
      <<65279, 104, 105>>,           \* U+FEFF then 'hi'
      <<104, 55296>> }               \* 'h' then a lone surrogate

ServicePasswords == {<<>>, PwA, PwB, PwRep, PwHi}

ReplaceWord(m, i, word) == [m EXCEPT ![2 * i - 1] = word]

MnemonicInputs ==
    Mnemonics
        \cup {ReplaceWord(m, i, word) : m \in Mnemonics, i \in 1..12, word \in 97..105}
        \cup {<<>>, <<97>>, SubSeq(generateMnemonic(1), 1, 21)}

sealed(data, pw) ==
    \* seal: encryptData(data, pw)
    /\ call.op = "none"
    /\ \E salt \in RandomBytes(16), iv \in RandomBytes(12) :
           call' = [op |-> "encryptData", data |-> data, pw |-> pw,
                    text |-> encryptData(data, pw, salt, iv),
                    how |-> "sealed", at |-> 0, openPw |-> <<>>, out |-> Rejected,
                    shown |-> "", draws |-> <<salt, iv>>]
    /\ UNCHANGED appVars

bitFlipped(i, k) ==
    \* bit k of byte i of the envelope is flipped
    /\ call.op = "encryptData" /\ call.how = "sealed"
    /\ LET combined == Base64Decode(call.text)
       IN  /\ i \in 1..Len(combined)
           /\ call' = [call EXCEPT
                  !.text = Base64Encode([combined EXCEPT ![i] = FlipBit(combined[i], k)]),
                  !.how = "flipped", !.at = i]
    /\ UNCHANGED appVars

truncated(n) ==
    \* only the first n bytes of the envelope are left
    /\ call.op = "encryptData" /\ call.how = "sealed"
    /\ LET combined == Base64Decode(call.text)
       IN  /\ n < Len(combined)
           /\ call' = [call EXCEPT !.text = Base64Encode(SubSeq(combined, 1, n)),
                                   !.how = "truncated", !.at = n]
    /\ UNCHANGED appVars

opened(pw) ==
    \* open: decryptData(envelope, pw); an altered envelope is opened with the
    \* password it was sealed with
    /\ call.op = "encryptData"
    /\ call.how # "sealed" => pw = call.pw
    /\ call' = [call EXCEPT !.op = "decryptData", !.openPw = pw,
                            !.out = decryptData(call.text, pw)]
    /\ UNCHANGED appVars

derived(m, network) ==
    \* createWallet(m, network)
    /\ call.op = "none"
    /\ call' = [op |-> "createWallet", data |-> m, pw |-> network, text |-> <<>>,
                how |-> "none", at |-> 0, openPw |-> <<>>,
                out |-> createWallet(m, network), shown |-> "", draws |-> <<>>]
    /\ UNCHANGED appVars

NextService ==
    \/ \E data \in Plaintexts, pw \in ServicePasswords : sealed(data, pw)
    \/ \E i \in 1..Len(Base64Decode(call.text)), k \in 0..7 : bitFlipped(i, k)
    \/ \E n \in 0..Len(Base64Decode(call.text)) : truncated(n)
    \/ \E pw \in ServicePasswords : opened(pw)
    \/ \E m \in MnemonicInputs, network \in {NetBitcoin, NetTestnet} : derived(m, network)

SpecService == Init /\ [][NextService]_vars

(***************************************************************************)
(* Two calls of encryptData with the same data and password.  Each of the  *)
(* four getRandomValues calls returns any value of the source; `call`      *)
(* records the draws in order, the first envelope in `text` and the second *)
(* in `out`.                                                               *)
(***************************************************************************)
MaxDraws == 2

Draws(n) == {Fill(n, r) : r \in 1..MaxDraws}    \* getRandomValues(new Uint8Array(n))

sealedFirst(data, pw) ==
    /\ call.op = "none"
    /\ \E salt \in Draws(16), iv \in Draws(12) :
           call' = [NoCall EXCEPT !.op = "encryptData", !.data = data, !.pw = pw,
                                  !.text = encryptData(data, pw, salt, iv),
                                  !.how = "sealed", !.draws = <<salt, iv>>]
    /\ UNCHANGED appVars

sealedAgain ==
    /\ call.op = "encryptData" /\ call.how = "sealed"
    /\ \E salt \in Draws(16), iv \in Draws(12) :
           call' = [call EXCEPT !.how = "sealed again",
                                !.out = Resolved(encryptData(call.data, call.pw, salt, iv)),
                                !.draws = @ \o <<salt, iv>>]
    /\ UNCHANGED appVars

NextSeal ==
    \/ \E data \in Plaintexts, pw \in ServicePasswords : sealedFirst(data, pw)
    \/ sealedAgain

SpecSeal == Init /\ [][NextSeal]_vars

(***************************************************************************)
(* Properties of WalletService (under SpecService).                        *)
(***************************************************************************)

\* C6: createWallet rejects every mnemonic that validateMnemonic rejects: a
\* createWallet call on an invalid mnemonic never resolves with a WalletData.
C6_InvalidMnemonicRejected ==
    (call.op = "createWallet" /\ ~validateMnemonic(call.data)) => ~call.out.ok

\* C7: opening an unaltered envelope with the password it was sealed with
\* returns exactly the plaintext that was sealed.
C7_RoundTrip ==
    (call.op = "decryptData" /\ call.how = "sealed" /\ call.openPw = call.pw)
        => (call.out.ok /\ call.out.value = call.data)

\* C8: opening an unaltered envelope with a password other than the one it was
\* sealed with fails and returns no plaintext.
C8_WrongPasswordRejected ==
    (call.op = "decryptData" /\ call.how = "sealed" /\ call.openPw # call.pw)
        => call.out = Rejected

\* C9: an envelope with one bit flipped (in salt, nonce, ciphertext or tag) or cut
\* short, opened with the password it was sealed with, fails and returns no
\* plaintext.
C9_AlteredEnvelopeRejected ==
    (call.op = "decryptData" /\ call.how \in {"flipped", "truncated"}
        /\ call.openPw = call.pw)
        => call.out = Rejected

\* C9 witness: a flipped bit inside the ciphertext of a non-empty plaintext has
\* been presented to decryptData with the sealing password, and was rejected.
C9_Witness ==
    /\ call.op = "decryptData" /\ call.how = "flipped" /\ call.openPw = call.pw
    /\ call.at > 28 /\ call.at <= Len(Base64Decode(call.text)) - 16
    /\ call.out = Rejected

(***************************************************************************)
(* Properties of the App's wallet state machine.                           *)
(***************************************************************************)
Unlocked == appState \in {"create", "dashboard"}

Locked == appState = "locked"

UnlockPending(t) == t \in tasks /\ t.kind = "unlock"

\* C1: an unlock whose password differs from the password the envelope it read
\* was sealed with does not move the wallet to Unlocked: when it ends, the app
\* state is unchanged, no WalletRecord has been put in memory, the stored
\* envelope is unchanged and the error message is set.
C1_WrongPasswordStaysLocked ==
    [][\A t \in tasks :
          (/\ decryptDataSettled(t)
           /\ ~IsNull(t.origin)
           /\ t.pw # TheValue(t.origin).pw)
              => (/\ appState' = appState
                  /\ wallet' = wallet
                  /\ storage' = storage
                  /\ error' = ErrUnlock)]_vars

\* C2: unlock, lock and wipe are serialized: while an unlock is suspended at its
\* await (before and after the step), no wipe and no lock takes effect and no
\* second unlock starts.
C2_TransitionsSerialized ==
    [][(\E t \in tasks : UnlockPending(t) /\ t \in tasks')
          => (/\ ~wipe(TRUE)
              /\ ~handleLogout
              /\ {t \in tasks' : t.kind = "unlock"} \subseteq tasks)]_vars

\* C3: whenever the wallet is Unlocked (app state 'create' or 'dashboard') the
\* storage slot holds an envelope.
C3_UnlockedHasEnvelope == Unlocked => ~IsNull(storage)

\* C4: whenever the wallet is Locked, no WalletRecord is in memory and the
\* storage slot holds an envelope.
C4_LockedHoldsNoRecord == Locked => (IsNull(wallet) /\ ~IsNull(storage))

\* C5: an unlock with the password W of the create that wrote the envelope it
\* read succeeds: it moves to the dashboard with a WalletRecord whose address is
\* the address of the WalletRecord that create produced.
C5_UnlockRestoresAddress ==
    [][\A t \in tasks :
          (/\ decryptDataSettled(t)
           /\ ~IsNull(t.origin)
           /\ t.pw = TheValue(t.origin).pw)
              => (/\ appState' = "dashboard"
                  /\ ~IsNull(wallet')
                  /\ TheValue(wallet').address = TheValue(t.origin).wallet.address
                  /\ error' = "")]_vars

\* C5 witness: after a create and a new page load (mnemonic state empty again),
\* an unlock has put the created wallet's address back on the dashboard.
C5_Witness ==
    /\ appState = "dashboard" /\ mnemonic = <<>>
    /\ ~IsNull(wallet) /\ ~IsNull(origin)
    /\ TheValue(wallet).address = TheValue(origin).wallet.address

\* C10: every unlock attempt on a stored item that fails shows the same outcome,
\* whatever made it fail (wrong password, altered, truncated or undecodable
\* item): the message 'Senha incorreta', with the app state, the wallet in
\* memory and the item unchanged.
C10_FailuresIndistinguishable ==
    (call.op = "handleUnlock" /\ ~call.out.ok)
        => (call.shown = ErrUnlock /\ call.at = 0)

\* C11: a confirmed wipe deletes the stored envelope and returns to onboarding:
\* right after it the slot is empty and the app state is 'onboarding'; a declined
\* confirmation changes neither the slot nor the app state.
C11_WipeEmptiesSlot ==
    [][\A confirmed \in BOOLEAN :
          wipe(confirmed)
              => IF confirmed
                     THEN IsNull(storage') /\ appState' = "onboarding"
                     ELSE storage' = storage /\ appState' = appState]_vars

\* C11 witness: a wipe has acted on the locked screen after a failed unlock (only a
\* wipe leaves the locked screen with the error message still shown).
C11_Witness == appState = "onboarding" /\ IsNull(storage) /\ error = ErrUnlock

\* C12: after lock (handleLogout) no plaintext mnemonic is left in the App's
\* memory: the wallet state holds no WalletData and the mnemonic state is empty.
C12_NoMnemonicAfterLock ==
    [][handleLogout => (IsNull(wallet') /\ mnemonic' = <<>>)]_vars

\* C13: whenever the wallet is Unlocked (app state 'create' or 'dashboard') a
\* WalletData is in memory, in every interleaving of create, lock, unlock and wipe.
C13_UnlockedHasRecord == Unlocked => ~IsNull(wallet)

\* C14: a (re)start leaves no WalletData in memory and the stored item unchanged,
\* and puts the app in 'locked' exactly when the slot holds an envelope, in
\* 'onboarding' when the slot is empty; lock (handleLogout) moves the app to
\* 'locked' and leaves the stored envelope unchanged.
C14_RestartAndLock ==
    [][/\ reload => (/\ IsNull(wallet')
                     /\ storage' = storage
                     /\ (appState' = "locked") <=> ~IsNull(storage)
                     /\ IsNull(storage) => appState' = "onboarding")
       /\ handleLogout => (/\ Unlocked
                           /\ appState' = "locked"
                           /\ storage' = storage)]_vars

\* C14 witness: the page was loaded again with an envelope in the slot (only a page
\* load empties the mnemonic state): the app is locked with no WalletData in memory.
C14_Witness ==
    /\ appState = "locked" /\ IsNull(wallet) /\ ~IsNull(storage)
    /\ mnemonic = <<>> /\ tasks = {}

(***************************************************************************)
(* The path createWallet walks (under SpecService).                        *)
(***************************************************************************)
PathIndices(path) == [i \in 1..Len(path) |-> path[i].index]

HardenedLevels(path) == {i \in 1..Len(path) : path[i].hardened}

CoinType(network) == IF network = NetBitcoin THEN 0 ELSE 1

\* C15 as stated: the path of a createWallet call is four hardened derivations
\* followed by two non-hardened derivations.
C15_FourHardenedTwoPlain ==
    call.op = "createWallet"
        => LET path == DerivationPath(call.pw)
           IN  Len(path) = 6 /\ HardenedLevels(path) = 1..4

\* C15 amended: the path of a createWallet call is three hardened derivations
\* (purpose 84, coin type 0 for main and 1 for test, account 0) followed by two
\* non-hardened derivations (external chain 0, index 0).
C15_ThreeHardenedTwoPlain ==
    call.op = "createWallet"
        => LET path == DerivationPath(call.pw)
           IN  /\ PathIndices(path) = <<84, CoinType(call.pw), 0, 0, 0>>
               /\ HardenedLevels(path) = 1..3

\* C15 witness: createWallet has derived a testnet wallet from a valid mnemonic.
C15_Witness ==
    /\ call.op = "createWallet" /\ call.pw = NetTestnet
    /\ validateMnemonic(call.data) /\ call.out.ok

(***************************************************************************)
(* Properties of two encryptData calls (under SpecSeal).                   *)
(***************************************************************************)
SaltAndIv(text) == Slice(Base64Decode(text), 0, 28)

FreshDraws == call.draws[3] # call.draws[1] /\ call.draws[4] # call.draws[2]

\* C16: each encryptData call puts the salt and the nonce it drew itself into its
\* envelope: when the second of two calls with the same data and password has
\* drawn a fresh salt and a fresh nonce, the two envelopes differ and the second
\* envelope's salt/nonce pair is not the first one's.
C16_SealNonDeterministic ==
    (call.how = "sealed again" /\ FreshDraws)
        => (/\ call.out.value # call.text
            /\ SaltAndIv(call.out.value) # SaltAndIv(call.text)
            /\ SaltAndIv(call.text) = call.draws[1] \o call.draws[2]
            /\ SaltAndIv(call.out.value) = call.draws[3] \o call.draws[4])

\* C16 witness: the same non-empty plaintext has been sealed twice with the same
\* password, the second call with fresh draws, and the envelopes differ.
C16_Witness ==
    /\ call.how = "sealed again" /\ FreshDraws
    /\ call.data # <<>> /\ call.pw # <<>>
    /\ call.out.value # call.text

(***************************************************************************)
(* Further properties of the App's wallet state machine (under Spec).      *)
(***************************************************************************)

\* C17: whenever the wallet is Unlocked, the stored envelope is the sealed form of
\* the WalletData in memory (same mnemonic and address), also when two creates
\* overlap.
C17_EnvelopeMatchesRecord ==
    Unlocked
        => (/\ ~IsNull(wallet) /\ ~IsNull(storage) /\ ~IsNull(origin)
            /\ TheValue(origin).wallet.mnemonic = TheValue(wallet).mnemonic
            /\ TheValue(origin).wallet.address = TheValue(wallet).address)

CreateFailedAlone ==
    \* a create fails after an await while no other handler is in flight
    \E t \in tasks :
        /\ tasks = {t}
        /\ createWalletRejected(t) \/ encryptDataRejected(t) \/ setItemThrew(t)

\* C18: a create that fails at any step (mnemonic generation, key derivation,
\* sealing, persisting) leaves the wallet as before the call: the app in
\* 'onboarding', no WalletData and no mnemonic in memory, the storage slot as it
\* was; only the error message is set.
C18_FailedCreateLeavesNothing ==
    [][/\ (generateMnemonicThrew /\ tasks = {})
           => (/\ UNCHANGED <<appState, wallet, mnemonic, storage>>
               /\ error' = ErrCreate)
       /\ CreateFailedAlone
           => (/\ appState' = "onboarding"
               /\ IsNull(wallet')
               /\ mnemonic' = <<>>
               /\ storage' = storage
               /\ error' = ErrCreate)]_vars

PasswordRefused == password # confirmPassword \/ Len(password) < 8

\* C19: a click on create with a password that differs from its confirmation or
\* is shorter than 8 generates no mnemonic, starts no derivation, persists nothing
\* and leaves the app in 'onboarding' with an error set; and every stored envelope
\* was sealed with a password of at least 8.
C19_CreateGuardedByPassword ==
    /\ [][(handleCreateWallet /\ PasswordRefused)
              => (/\ UNCHANGED <<mnemonic, wallet, storage, tasks>>
                  /\ appState' = "onboarding"
                  /\ error' \in {ErrMismatch, ErrTooShort})]_vars
    /\ [](~IsNull(storage) => (~IsNull(origin) /\ Len(TheValue(origin).pw) >= 8))

\* C19 witness: a click on create was refused for a short password, nothing was
\* generated or stored.
C19_Witness ==
    /\ error = ErrTooShort /\ appState = "onboarding"
    /\ mnemonic = <<>> /\ IsNull(wallet) /\ IsNull(storage) /\ tasks = {}

UserTransition ==
    \* what the rendered screen lets the user do (the render branches per appState)
    \/ \E p \in Passwords : setPassword(p) \/ setConfirmPassword(p)
    \/ handleCreateWallet
    \/ showImport
    \/ showDashboard
    \/ handleUnlock
    \/ \E confirmed \in BOOLEAN : wipe(confirmed)
    \/ handleLogout

\* C20: no reachable state is a dead end: in every reachable combination of app
\* state and wallet presence a screen with an action is rendered, so that at least
\* one user transition is enabled.
C20_NoDeadEnd == ENABLED UserTransition

====
